---- MODULE Spec2Model ----
(***************************************************************************)
(* SorryDB LLM client: the proof verifier (_check_proof) that drives a     *)
(* Lean REPL session tactic by tactic, and the orchestrator                *)
(* (solve_sorry_db) that walks the sorry database, asks the model for a    *)
(* proof of every Prop sorry and rewrites the result file after each one.  *)
(*                                                                         *)
(* Two specifications share the verifier's actions:                        *)
(*   CheckSpec  one call of _check_proof on arbitrary arguments;           *)
(*   Spec       one call of solve_sorry_db, followed by the caller's       *)
(*              close().                                                   *)
(***************************************************************************)
EXTENDS Integers, Sequences, FiniteSets, TLC

(* ------------------------------ bounds -------------------------------- *)

\* longest candidate proof (number of tactics)
MaxTactics == 2
\* largest line number of a sorry
MaxLine == 2
\* most sorries the REPL reports for one file
MaxFileSorries == 2
\* most sorries in the whole database
MaxSorries == 3
\* longest text handed to _split_proof (number of characters)
MaxText == 6
\* longest file content handed to process_file_content (number of characters,
\* the word sorry counting as one)
MaxContent == 5
\* most repositories in lean4_repos.txt
MaxRepos == 2

(* ------------------------------ values -------------------------------- *)

\* Python's None and str as one comparable shape
None == [isNone |-> TRUE, str |-> ""]
Str(s) == [isNone |-> FALSE, str |-> s]

Lines == 1..MaxLine
Columns == {0, 2}
Pos == [line : Lines, column : Columns]

\* the sequences over S of length at most n
RECURSIVE SeqsUpTo(_, _)
SeqsUpTo(S, n) ==
    IF n = 0 THEN {<<>>}
    ELSE LET shorter == SeqsUpTo(S, n - 1)
         IN shorter \cup {Append(s, x) : s \in {t \in shorter : Len(t) = n - 1}, x \in S}

\* a file, as far as the REPL's load reply goes: the positions of its sorries
Files == SeqsUpTo(Pos, MaxFileSorries)

Tactics == {"rfl", "simp"}
Proofs == SeqsUpTo(Tactics, MaxTactics)
\* what _split_proof makes of the model's answers in a run of the whole database
GenProofs == {<<>>, <<"rfl">>, <<"simp", "rfl">>}
\* the files of the database's commits: at most one sorry each
RepoFiles == {f \in Files : Len(f) <= 1}

\* reply.get("messages", []): the severities of the messages, in order
Messages == {<<>>, <<"warning">>, <<"error">>, <<"warning", "error">>}
GoalLists == {<<>>, <<"g">>}

\* A reply of the REPL: the keys the code looks up, each with its value (a key
\* that is absent has has<Key> = FALSE and a default value).
Reply(hs, ss, hp, ps, hg, gs, ms) ==
    [hasSorries |-> hs, sorries |-> ss, hasProofState |-> hp, proofState |-> ps,
     hasGoals |-> hg, goals |-> gs, messages |-> ms]

\* the replies to {"cmd": file_text}: the sorry at index i of the file carries
\* proof state i - 1
SorryEntries(text) ==
    [i \in 1..Len(text) |-> [pos |-> text[i], proofState |-> i - 1]]

LoadReplies(text) ==
    {Reply(TRUE, SorryEntries(text), FALSE, 0, FALSE, <<>>, <<>>),
     Reply(FALSE, <<>>, FALSE, 0, FALSE, <<>>, <<>>)}
    \cup
    {Reply(TRUE, SorryEntries(text), FALSE, 0, TRUE, g, <<>>) : g \in GoalLists}

\* the replies to {"tactic": t, "proofState": _}; ps is the session's next fresh handle
TacticReplies(ps) ==
    {Reply(FALSE, <<>>, h, IF h THEN ps ELSE 0, FALSE, <<>>, m) :
        m \in Messages, h \in BOOLEAN}
    \cup
    {Reply(FALSE, <<>>, h, IF h THEN ps ELSE 0, TRUE, g, m) :
        m \in Messages, h \in BOOLEAN, g \in GoalLists}

\* "\n".join(xs)
RECURSIVE Join(_)
Join(xs) ==
    IF Len(xs) = 0 THEN ""
    ELSE IF Len(xs) = 1 THEN xs[1]
    ELSE xs[1] \o "\n" \o Join(Tail(xs))

\* json.dump of the result map: None becomes null, a str a JSON string
DumpJson(m) ==
    [u \in DOMAIN m |->
        IF m[u].isNone THEN [json |-> "null", text |-> ""]
        ELSE [json |-> "string", text |-> m[u].str]]

(* ------------------------------ state --------------------------------- *)

VARIABLES
    pc,             \* where the run is
    sorries,        \* solve_sorry_db: uuids of the current commit's Prop sorries
    i_sorry,        \* solve_sorry_db: index into sorries of the one being attempted
    seen,           \* uuids of all sorries of the commits read so far
    prop,           \* those of them whose goal parentType is Prop
    llm_proofs,     \* solve_sorry_db: uuid -> result
    out_json,       \* the output file: [exists, data]
    repl,           \* self.repl: the session in use (0: attribute not set)
    created,        \* number of LeanRepl objects constructed so far
    live,           \* sessions whose REPL process is running
    file_text,      \* _check_proof arguments
    line,
    column,
    proof,
    k,              \* _check_proof: tactics of proof iterated so far
    proof_state,    \* _check_proof: current proof state handle (NoHandle: not bound)
    reply,          \* _check_proof: the last reply received
    complete_proof, \* _check_proof: tactics accepted so far
    result,         \* value returned by _check_proof
    nextPS,         \* the session's next fresh proof state handle
    sent,           \* requests sent by the current _check_proof call, in order
    failure,        \* the exception that ended the run ("none": none)
    proof_text,     \* _split_proof: its argument proof, a str
    tactics,        \* _split_proof: the list it returned
    repos,          \* find_sorries.main: the repository list (its length)
    i_repo,         \* main: repositories processed so far
    results,        \* main: the accumulated records
    new_sorries,    \* the file new_sorries.json: [exists, data]
    repo_results,   \* process_repository: its list results
    files,          \* process_repository: the (branch, file) pairs of branch_files, in loop order
    i_file,         \* process_repository: index into files of the one being processed
    content,        \* process_file_content: its argument
    sorry_lines,    \* process_file_content: the list it returned
    i_line,         \* process_repository: index into sorry_lines
    blame_info      \* process_repository: what get_line_blame_info returned last

vars == <<pc, sorries, i_sorry, seen, prop, llm_proofs, out_json, repl, created,
          live, file_text, line, column, proof, k, proof_state, reply,
          complete_proof, result, nextPS, sent, failure, proof_text, tactics,
          repos, i_repo, results, new_sorries, repo_results, files, i_file,
          content, sorry_lines, i_line, blame_info>>

orchVars == <<sorries, i_sorry, seen, prop, llm_proofs, out_json>>
sessVars == <<repl, created, live>>
argVars == <<file_text, line, column, proof>>
checkVars == <<k, proof_state, reply, complete_proof, result, nextPS, sent>>
splitVars == <<proof_text, tactics>>
mainVars == <<repos, i_repo, results, new_sorries>>
repoVars == <<repo_results, files, i_file, i_line, blame_info>>
fileVars == <<content, sorry_lines>>
findVars == <<mainVars, repoVars, fileVars>>

NoReply == Reply(FALSE, <<>>, FALSE, 0, FALSE, <<>>, <<>>)
NoHandle == -1
NoFile == [exists |-> FALSE, data |-> <<>>]

\* find_sorries is not running
NoDiscovery ==
    /\ repos = 0
    /\ i_repo = 0
    /\ results = <<>>
    /\ new_sorries = NoFile
    /\ repo_results = <<>>
    /\ files = <<>>
    /\ i_file = 0
    /\ content = <<>>
    /\ sorry_lines = <<>>
    /\ i_line = 0
    /\ blame_info = [isNone |-> TRUE, date |-> [day |-> 0, form |-> "Z"]]

\* the locals of _check_proof before the call
FreshLocals ==
    /\ k = 0
    /\ proof_state = NoHandle
    /\ reply = NoReply
    /\ complete_proof = <<>>
    /\ result = None
    /\ nextPS = 0
    /\ sent = <<>>

(* --------------------------- _check_proof ----------------------------- *)

\* an exception leaves _check_proof and, uncaught, everything above it
Raise(what) ==
    /\ pc' = "aborted"
    /\ failure' = what

Return(value) ==
    /\ pc' = "ret"
    /\ result' = value
    /\ failure' = failure

\* (variant: the lookup compares the line alone)
MatchesLineOnly(ss, l, c) ==
    {i \in 1..Len(ss) : ss[i].pos.line = l}

\* for s in reply["sorries"]: ... break: index of the first entry at (line, column)
Matches(ss, l, c) ==
    {i \in 1..Len(ss) : ss[i].pos.line = l /\ ss[i].pos.column = c}

FirstMatch(ss, l, c) ==
    CHOOSE i \in Matches(ss, l, c) : \A j \in Matches(ss, l, c) : i <= j

\* (variant: only the first message is inspected)
FirstMessageIsError(ms) ==
    Len(ms) >= 1 /\ ms[1] = "error"

\* lines 190-194: some message has severity error
MessagesHaveError(ms) ==
    \E i \in 1..Len(ms) : ms[i] = "error"

CmdRequest == [session |-> repl, kind |-> "cmd", tactic |-> "", proofState |-> 0]
TacticRequest(t, ps) == [session |-> repl, kind |-> "tactic", tactic |-> t, proofState |-> ps]

\* lines 172-182: load the file and locate the sorry
CheckProof_Load ==
    /\ pc = "load"
    /\ sent' = Append(sent, CmdRequest)
    /\ \/ /\ Raise("exchange")
          /\ UNCHANGED <<k, proof_state, reply, complete_proof, result, nextPS>>
       \/ \E r \in LoadReplies(file_text) :
            /\ reply' = r
            /\ nextPS' = Len(r.sorries)
            /\ IF ~r.hasSorries
               THEN /\ Raise("KeyError: sorries")
                    /\ UNCHANGED <<k, proof_state, complete_proof, result>>
               ELSE IF Matches(r.sorries, line, column) = {}
               THEN /\ Return(None)
                    /\ UNCHANGED <<k, proof_state, complete_proof>>
               ELSE /\ pc' = "tactic"
                    /\ proof_state' = r.sorries[FirstMatch(r.sorries, line, column)].proofState
                    /\ complete_proof' = <<>>
                    /\ UNCHANGED <<k, result, failure>>
    \* file_text, line and column are not read again
    /\ file_text' = <<>>
    /\ line' = 0
    /\ column' = 0
    /\ UNCHANGED <<orchVars, sessVars, proof>>
    /\ UNCHANGED <<splitVars, findVars>>

\* (variant: the handle is not advanced to the one the reply returns)
CheckProof_TacticKeepsHandle ==
    /\ pc = "tactic"
    /\ k < Len(proof)
    /\ LET tactic == proof[k + 1] IN
       /\ sent' = Append(sent, TacticRequest(tactic, proof_state))
       /\ \/ /\ Raise("exchange")
             /\ UNCHANGED <<k, proof_state, reply, complete_proof, result, nextPS>>
          \/ \E r \in TacticReplies(nextPS) :
               /\ reply' = r
               /\ nextPS' = IF r.hasProofState THEN nextPS + 1 ELSE nextPS
               /\ IF MessagesHaveError(r.messages) \/ ~r.hasProofState
                  THEN /\ Return(None)
                       /\ UNCHANGED <<k, proof_state, complete_proof>>
                  ELSE /\ complete_proof' = Append(complete_proof, tactic)
                       /\ proof_state' = proof_state
                       /\ k' = k + 1
                       /\ UNCHANGED <<pc, result, failure>>
    /\ UNCHANGED <<orchVars, sessVars, argVars>>
    /\ UNCHANGED <<splitVars, findVars>>

\* (variant: the tactics are taken from the end of the list)
CheckProof_TacticReversed ==
    /\ pc = "tactic"
    /\ k < Len(proof)
    /\ LET tactic == proof[Len(proof) - k] IN
       /\ sent' = Append(sent, TacticRequest(tactic, proof_state))
       /\ \/ /\ Raise("exchange")
             /\ UNCHANGED <<k, proof_state, reply, complete_proof, result, nextPS>>
          \/ \E r \in TacticReplies(nextPS) :
               /\ reply' = r
               /\ nextPS' = IF r.hasProofState THEN nextPS + 1 ELSE nextPS
               /\ IF MessagesHaveError(r.messages) \/ ~r.hasProofState
                  THEN /\ Return(None)
                       /\ UNCHANGED <<k, proof_state, complete_proof>>
                  ELSE /\ complete_proof' = Append(complete_proof, tactic)
                       /\ proof_state' = r.proofState
                       /\ k' = k + 1
                       /\ UNCHANGED <<pc, result, failure>>
    /\ UNCHANGED <<orchVars, sessVars, argVars>>
    /\ UNCHANGED <<splitVars, findVars>>

\* lines 185-201: one iteration of the tactic loop
CheckProof_Tactic ==
    /\ pc = "tactic"
    /\ k < Len(proof)
    /\ LET tactic == proof[k + 1] IN
       /\ sent' = Append(sent, TacticRequest(tactic, proof_state))
       /\ \/ /\ Raise("exchange")
             /\ UNCHANGED <<k, proof_state, reply, complete_proof, result, nextPS>>
          \/ \E r \in TacticReplies(nextPS) :
               /\ reply' = r
               /\ nextPS' = IF r.hasProofState THEN nextPS + 1 ELSE nextPS
               /\ IF MessagesHaveError(r.messages) \/ ~r.hasProofState
                  THEN /\ Return(None)
                       /\ UNCHANGED <<k, proof_state, complete_proof>>
                  ELSE /\ complete_proof' = Append(complete_proof, tactic)
                       /\ proof_state' = r.proofState
                       /\ k' = k + 1
                       /\ UNCHANGED <<pc, result, failure>>
    /\ UNCHANGED <<orchVars, sessVars, argVars>>
    /\ UNCHANGED <<splitVars, findVars>>

\* lines 203-208: after the loop
CheckProof_Final ==
    /\ pc = "tactic"
    /\ k = Len(proof)
    /\ IF ~reply.hasGoals
       THEN /\ Raise("KeyError: goals")
            /\ UNCHANGED result
       ELSE IF reply.goals = <<>>
       THEN Return(Str(Join(complete_proof)))
       ELSE Return(None)
    /\ UNCHANGED <<orchVars, sessVars, argVars>>
    /\ UNCHANGED <<k, proof_state, reply, complete_proof, nextPS, sent>>
    /\ UNCHANGED <<splitVars, findVars>>

(* ----------------- one call of _check_proof: CheckSpec ---------------- *)

CheckInit ==
    /\ pc = "load"
    /\ sorries = <<>>
    /\ i_sorry = 0
    /\ seen = {}
    /\ prop = {}
    /\ llm_proofs = <<>>
    /\ out_json = NoFile
    /\ repl = 1
    /\ created = 1
    /\ live = {1}
    /\ file_text \in Files
    /\ line \in Lines
    /\ column \in Columns
    /\ proof \in Proofs
    /\ FreshLocals
    /\ failure = "none"
    /\ proof_text = <<>>
    /\ tactics = <<>>
    /\ NoDiscovery

CheckNext ==
    \/ CheckProof_Load
    \/ CheckProof_Tactic
    \/ CheckProof_Final

CheckSpec == CheckInit /\ [][CheckNext]_vars

(* --------------------------- _split_proof ----------------------------- *)

\* A str is a sequence of characters. The alphabet has the characters the
\* splitter tells apart (space, newline, the terminator) and two letters, which
\* spell the token by and tactics that are not by.
Chars == {" ", "\n", ";", "b", "y"}
Texts == SeqsUpTo(Chars, MaxText)
Whitespace == {" ", "\n"}
By == <<"b", "y">>

\* str.lstrip(), str.rstrip(), str.strip()
RECURSIVE LStrip(_)
LStrip(s) ==
    IF s # <<>> /\ Head(s) \in Whitespace THEN LStrip(Tail(s)) ELSE s

RECURSIVE RStrip(_)
RStrip(s) ==
    IF s # <<>> /\ s[Len(s)] \in Whitespace THEN RStrip(SubSeq(s, 1, Len(s) - 1)) ELSE s

Strip(s) == RStrip(LStrip(s))

\* str.split("\n"): never an empty list
RECURSIVE SplitLines(_)
SplitLines(s) ==
    IF \E i \in DOMAIN s : s[i] = "\n"
    THEN LET i == CHOOSE i \in DOMAIN s : s[i] = "\n" /\ \A j \in 1..(i - 1) : s[j] # "\n"
         IN  <<SubSeq(s, 1, i - 1)>> \o SplitLines(SubSeq(s, i + 1, Len(s)))
    ELSE <<s>>

\* len(line) - len(line.lstrip())
Indent(ln) == Len(ln) - Len(LStrip(ln))

\* line[n:], which is "" when n exceeds the length
Slice(ln, n) == IF n >= Len(ln) THEN <<>> ELSE SubSeq(ln, n + 1, Len(ln))

\* (variant: every trailing terminator is removed, not one)
RECURSIVE StripTerminators(_)
StripTerminators(ln) ==
    IF ln # <<>> /\ ln[Len(ln)] = ";" THEN StripTerminators(SubSeq(ln, 1, Len(ln) - 1)) ELSE ln

\* lines 146-147: if line.endswith(";"): line = line[:-1]
DropTerminator(ln) ==
    IF ln # <<>> /\ ln[Len(ln)] = ";" THEN SubSeq(ln, 1, Len(ln) - 1) ELSE ln

\* lines 141-154: the for loop over the lines left, from the list acc
RECURSIVE Walk(_, _, _)
Walk(lines, base_indent, acc) ==
    IF lines = <<>> THEN [raised |-> FALSE, tactics |-> acc]
    ELSE IF Strip(Head(lines)) = <<>> THEN Walk(Tail(lines), base_indent, acc)
    ELSE LET ln == DropTerminator(Slice(Head(lines), base_indent))
         IN  IF Indent(ln) = 0
             THEN Walk(Tail(lines), base_indent, Append(acc, ln))
             ELSE IF acc = <<>>
             THEN [raised |-> TRUE, tactics |-> acc]
             ELSE Walk(Tail(lines), base_indent,
                       [acc EXCEPT ![Len(acc)] = @ \o <<"\n">> \o ln])

\* lines 135-137: the lines of the text, without lines[0] when that is by
RemainingLines(text) ==
    LET lines == SplitLines(text)
    IN  IF Strip(lines[1]) = By THEN Tail(lines) ELSE lines

\* lines 135-156: _split_proof(proof); lines[0] and tactics[-1] raise
\* IndexError on an empty list
SplitProof(text) ==
    LET lines == RemainingLines(text)
    IN  IF lines = <<>> THEN [raised |-> TRUE, tactics |-> <<>>]
        ELSE Walk(lines, Indent(lines[1]), <<>>)

\* one call of _split_proof
SplitProof_Call ==
    /\ pc = "split"
    /\ \/ /\ SplitProof(proof_text).raised
          /\ Raise("IndexError")
          /\ tactics' = <<>>
       \/ /\ ~SplitProof(proof_text).raised
          /\ tactics' = SplitProof(proof_text).tactics
          /\ pc' = "split_ret"
          /\ UNCHANGED failure
    /\ UNCHANGED <<orchVars, sessVars, argVars, checkVars, proof_text, findVars>>

SplitInit ==
    /\ pc = "split"
    /\ proof_text \in Texts
    /\ tactics = <<>>
    /\ NoDiscovery
    /\ sorries = <<>>
    /\ i_sorry = 0
    /\ seen = {}
    /\ prop = {}
    /\ llm_proofs = <<>>
    /\ out_json = NoFile
    /\ repl = 1
    /\ created = 1
    /\ live = {1}
    /\ file_text = <<>>
    /\ line = 0
    /\ column = 0
    /\ proof = <<>>
    /\ FreshLocals
    /\ failure = "none"

SplitNext == SplitProof_Call

SplitSpec == SplitInit /\ [][SplitNext]_vars

(* --------------------------- solve_sorry_db --------------------------- *)

\* The database is read as the loops reach it: the next commit (of this repo or
\* of a later one) is an input of ForCommit, a sorry's location and file an input
\* of SolveSorry. Uuids are the stable identifiers of the database, one per sorry.
NewUuids(n) == (Cardinality(seen) + 1)..(Cardinality(seen) + n)

\* (variant: no filter on parentType, every sorry of the commit is kept)
AllSorries(from, to, props) == [j \in 1..(to - from + 1) |-> from + j - 1]

\* [s for s in commit["sorries"] if s["goal"]["parentType"] == "Prop"], in order
RECURSIVE PropSorries(_, _, _)
PropSorries(from, to, props) ==
    IF from > to THEN <<>>
    ELSE IF from \in props THEN <<from>> \o PropSorries(from + 1, to, props)
    ELSE PropSorries(from + 1, to, props)

ClearCall ==
    /\ file_text' = <<>>
    /\ line' = 0
    /\ column' = 0
    /\ proof' = <<>>
    /\ k' = 0
    /\ proof_state' = NoHandle
    /\ reply' = NoReply
    /\ complete_proof' = <<>>
    /\ result' = None
    /\ nextPS' = 0
    /\ sent' = <<>>

\* lines 256-264: the next commit of the two for loops, filtered
ForCommit ==
    /\ pc = "commits"
    /\ \E n \in 0..(MaxSorries - Cardinality(seen)) : \E props \in SUBSET NewUuids(n) :
         /\ seen' = seen \cup NewUuids(n)
         /\ prop' = prop \cup props
         /\ sorries' = PropSorries(Cardinality(seen) + 1, Cardinality(seen) + n, props)
         /\ pc' = IF sorries' = <<>> THEN "commits" ELSE "setup"
    /\ i_sorry' = 0
    /\ UNCHANGED <<llm_proofs, out_json, sessVars, argVars, checkVars, failure>>
    /\ UNCHANGED <<splitVars, findVars>>

\* lines 256-258, 288: both loops are exhausted
Finish ==
    /\ pc = "commits"
    /\ pc' = "done"
    /\ UNCHANGED <<orchVars, sessVars, argVars, checkVars, failure>>
    /\ UNCHANGED <<splitVars, findVars>>

\* lines 110-122, called at 266-271: a new LeanRepl replaces self.repl
SetupRepo ==
    /\ pc = "setup"
    /\ \/ /\ Raise("setup")
          /\ UNCHANGED <<sessVars, i_sorry>>
       \/ /\ created' = created + 1
          /\ repl' = created + 1
          /\ live' = live \cup {created + 1}
          /\ pc' = "sorry"
          /\ i_sorry' = 1
          /\ UNCHANGED failure
    /\ UNCHANGED <<sorries, seen, prop, llm_proofs, out_json, argVars, checkVars>>
    /\ UNCHANGED <<splitVars, findVars>>

\* lines 216-231: _solve_sorry up to the call of _check_proof
SolveSorry ==
    /\ pc = "sorry"
    /\ \/ /\ Raise("generator")
          /\ UNCHANGED <<argVars, checkVars>>
       \/ /\ Raise("split")
          /\ UNCHANGED <<argVars, checkVars>>
       \/ /\ file_text' \in RepoFiles
          /\ line' \in Lines
          /\ column' \in Columns
          /\ proof' \in GenProofs
          /\ pc' = "load"
          /\ UNCHANGED <<checkVars, failure>>
    /\ UNCHANGED <<orchVars, sessVars>>
    /\ UNCHANGED <<splitVars, findVars>>

\* line 275: llm_proofs[sorry["uuid"]] = <the value _solve_sorry returned>
Record ==
    /\ pc = "ret"
    /\ llm_proofs' = [u \in DOMAIN llm_proofs \cup {sorries[i_sorry]} |->
                        IF u = sorries[i_sorry] THEN result ELSE llm_proofs[u]]
    /\ pc' = "write"
    /\ ClearCall
    /\ UNCHANGED <<sorries, i_sorry, seen, prop, out_json, sessVars, failure>>
    /\ UNCHANGED <<splitVars, findVars>>

\* (variant: the file is written after the inner loop, once per commit)
PersistAtCommitEnd ==
    /\ pc = "write"
    /\ out_json' = IF i_sorry < Len(sorries) THEN out_json
                   ELSE [exists |-> TRUE, data |-> DumpJson(llm_proofs)]
    /\ IF i_sorry < Len(sorries)
       THEN /\ i_sorry' = i_sorry + 1
            /\ pc' = "sorry"
       ELSE /\ i_sorry' = 0
            /\ pc' = "commits"
    /\ UNCHANGED <<sorries, seen, prop, llm_proofs, sessVars, argVars, checkVars, failure>>
    /\ UNCHANGED <<splitVars, findVars>>

\* (variant: an unsolved sorry ends the commit's loop)
PersistBreakOnNone ==
    /\ pc = "write"
    /\ out_json' = [exists |-> TRUE, data |-> DumpJson(llm_proofs)]
    /\ IF i_sorry < Len(sorries) /\ ~llm_proofs[sorries[i_sorry]].isNone
       THEN /\ i_sorry' = i_sorry + 1
            /\ pc' = "sorry"
       ELSE /\ i_sorry' = 0
            /\ pc' = "commits"
    /\ UNCHANGED <<sorries, seen, prop, llm_proofs, sessVars, argVars, checkVars, failure>>
    /\ UNCHANGED <<splitVars, findVars>>

\* lines 278-279, then the next iteration of "for sorry in sorries"
Persist ==
    /\ pc = "write"
    /\ out_json' = [exists |-> TRUE, data |-> DumpJson(llm_proofs)]
    /\ IF i_sorry < Len(sorries)
       THEN /\ i_sorry' = i_sorry + 1
            /\ pc' = "sorry"
       ELSE /\ i_sorry' = 0
            /\ pc' = "commits"
    /\ UNCHANGED <<sorries, seen, prop, llm_proofs, sessVars, argVars, checkVars, failure>>
    /\ UNCHANGED <<splitVars, findVars>>

\* lines 301-303: the caller closes the client once solve_sorry_db is over
Close ==
    /\ pc \in {"done", "aborted"}
    /\ pc' = "closed"
    /\ live' = live \ {repl}
    /\ UNCHANGED <<orchVars, repl, created, argVars, checkVars, failure>>
    /\ UNCHANGED <<splitVars, findVars>>

Init ==
    /\ pc = "commits"
    /\ sorries = <<>>
    /\ i_sorry = 0
    /\ seen = {}
    /\ prop = {}
    /\ llm_proofs = <<>>
    /\ out_json = NoFile
    /\ repl = 0
    /\ created = 0
    /\ live = {}
    /\ file_text = <<>>
    /\ line = 0
    /\ column = 0
    /\ proof = <<>>
    /\ FreshLocals
    /\ failure = "none"
    /\ proof_text = <<>>
    /\ tactics = <<>>
    /\ NoDiscovery

Next ==
    \/ ForCommit
    \/ Finish
    \/ SetupRepo
    \/ SolveSorry
    \/ CheckProof_Load
    \/ CheckProof_Tactic
    \/ CheckProof_Final
    \/ Record
    \/ Persist
    \/ Close

Spec == Init /\ [][Next]_vars

(* ----------------- find_sorries: process_file_content ------------------ *)

\* The content of a file is a sequence of characters; "sorry" stands for the
\* five characters of that word in a row, "x" for any other letter.
FileChars == {" ", "\n", "-", "/", "sorry", "x"}
Contents == SeqsUpTo(FileChars, MaxContent)

\* str.splitlines(): no line after a final line break, none for ""
Splitlines(s) ==
    IF s = <<>> THEN <<>>
    ELSE LET parts == SplitLines(s)
         IN  IF parts[Len(parts)] = <<>> THEN SubSeq(parts, 1, Len(parts) - 1) ELSE parts

\* str.startswith(prefix)
StartsWith(s, prefix) ==
    /\ Len(s) >= Len(prefix)
    /\ SubSeq(s, 1, Len(prefix)) = prefix

\* (variant: only "--" opens a comment)
StartsWithDashes(ln) == StartsWith(ln, <<"-", "-">>)

\* line 160: line.startswith("--") or line.startswith("/--")
IsLineComment(ln) ==
    StartsWith(ln, <<"-", "-">>) \/ StartsWith(ln, <<"/", "-", "-">>)

\* the first of the whitespace-delimited parts of s, which does not start with whitespace
RECURSIVE FirstPart(_)
FirstPart(s) ==
    IF s = <<>> \/ Head(s) \in Whitespace THEN <<>>
    ELSE <<Head(s)>> \o FirstPart(Tail(s))

\* str.split(): the parts between runs of whitespace
RECURSIVE SplitParts(_)
SplitParts(s) ==
    LET t == LStrip(s)
    IN  IF t = <<>> THEN <<>>
        ELSE <<FirstPart(t)>> \o SplitParts(SubSeq(t, Len(FirstPart(t)) + 1, Len(t)))

\* lines 156-166: the for loop from index i (0-based) on
RECURSIVE ScanLines(_, _)
ScanLines(lines, i) ==
    IF i >= Len(lines) THEN <<>>
    ELSE LET ln == Strip(lines[i + 1])
         IN  IF IsLineComment(ln) THEN ScanLines(lines, i + 1)
             ELSE IF \E j \in DOMAIN SplitParts(ln) : SplitParts(ln)[j] = <<"sorry">>
             THEN <<i + 1>> \o ScanLines(lines, i + 1)
             ELSE ScanLines(lines, i + 1)

\* lines 151-168: process_file_content(content)
ProcessFileContent(text) == ScanLines(Splitlines(text), 0)

\* one call of process_file_content
ProcessFileContent_Call ==
    /\ pc = "content"
    /\ sorry_lines' = ProcessFileContent(content)
    /\ pc' = "content_ret"
    /\ UNCHANGED <<orchVars, sessVars, argVars, checkVars, splitVars, mainVars,
                   repoVars, content, failure>>

ContentInit ==
    /\ pc = "content"
    /\ content \in Contents
    /\ sorry_lines = <<>>
    /\ repos = 0
    /\ i_repo = 0
    /\ results = <<>>
    /\ new_sorries = NoFile
    /\ repo_results = <<>>
    /\ files = <<>>
    /\ i_file = 0
    /\ i_line = 0
    /\ blame_info = [isNone |-> TRUE, date |-> [day |-> 0, form |-> "Z"]]
    /\ proof_text = <<>>
    /\ tactics = <<>>
    /\ sorries = <<>>
    /\ i_sorry = 0
    /\ seen = {}
    /\ prop = {}
    /\ llm_proofs = <<>>
    /\ out_json = NoFile
    /\ repl = 1
    /\ created = 1
    /\ live = {1}
    /\ file_text = <<>>
    /\ line = 0
    /\ column = 0
    /\ proof = <<>>
    /\ FreshLocals
    /\ failure = "none"

ContentNext == ProcessFileContent_Call

ContentSpec == ContentInit /\ [][ContentNext]_vars

(* ------------- find_sorries: process_repository and main --------------- *)

\* days; cutoff_date is now - args.cutoff days (line 298)
Dates == 0..1
cutoff_date == 1

\* blame_info["date"]: an ISO string ending in Z, one without a time zone, or
\* one that is no ISO date (day 0 then: it is never read)
DateStrings ==
    [day : Dates, form : {"Z"}] \cup [day : {0}, form : {"naive", "bad"}]

\* what get_line_blame_info returns: None or the blame of the line
NoBlame == [isNone |-> TRUE, date |-> [day |-> 0, form |-> "Z"]]
BlameInfos == {NoBlame} \cup [isNone : {FALSE}, date : DateStrings]

\* lines 252-253: datetime.fromisoformat(...) raises ValueError on a string
\* that is no ISO date, and comparing a datetime without time zone with
\* cutoff_date, which has one, raises TypeError
DateRaises(date) == date.form # "Z"

\* (variant: no rejection on the date)
NeverTooOld(date) == FALSE

\* line 253: blame_date < cutoff_date
TooOld(date) == date.day < cutoff_date

\* the files get_file_content_at_ref can return: with two sorry lines, with a
\* sorry on a comment line only
RepoContents ==
    { <<"sorry", "\n", "sorry">>, <<"-", "-", " ", "sorry">> }

\* branch_files in the order of the two loops: one file, two files of one
\* branch, one file in each of two branches
BranchFile(b, p) == [branch |-> b, file_path |-> p]
BranchFiles ==
    { <<BranchFile("main", "A.lean")>>,
      <<BranchFile("main", "A.lean"), BranchFile("main", "B.lean")>>,
      <<BranchFile("main", "A.lean"), BranchFile("dev", "A.lean")>> }

\* lines 256-265: the record appended (head_sha, head_date and github_url are
\* determined by the other fields)
SorryRecord(repo, bf, line_number, blame) ==
    [repository |-> repo, branch |-> bf.branch, file_path |-> bf.file_path,
     line_number |-> line_number, blame |-> blame]

\* json.dump(results, f, indent=2): an array of objects
DumpResults(rs) ==
    [i \in DOMAIN rs |->
        [json |-> "object", repository |-> rs[i].repository, branch |-> rs[i].branch,
         file_path |-> rs[i].file_path, line_number |-> rs[i].line_number,
         blame |-> [json |-> "object", date |-> rs[i].blame.date]]]

\* new_sorries.json as an earlier run left it
StaleFile ==
    [exists |-> TRUE,
     data |-> DumpResults(<<SorryRecord(0, [branch |-> "main", file_path |-> "A.lean"], 1,
                                        [isNone |-> FALSE, date |-> [day |-> 0, form |-> "Z"]])>>)]

\* the state of the LLM client, which find_sorries does not touch
clientVars == <<orchVars, sessVars, argVars, checkVars, splitVars>>

\* lines 312-314 and 208-227: main calls process_repository for the next
\* repository, which lists the branches and their affected files
ProcessRepository_Start ==
    /\ pc = "main"
    /\ i_repo < repos
    /\ repo_results' = <<>>
    /\ \/ \* get_recent_commits raises: caught at line 271, results returned
          /\ pc' = "repo_ret"
          /\ files' = <<>>
          /\ i_file' = 0
       \/ \* no recent commits, or no affected .lean file: return []
          /\ pc' = "repo_ret"
          /\ files' = <<>>
          /\ i_file' = 0
       \/ /\ files' \in BranchFiles
          /\ i_file' = 1
          /\ pc' = "files"
    /\ UNCHANGED <<clientVars, mainVars, fileVars, i_line, blame_info, failure>>

\* lines 236-244: the next file is fetched and scanned
ProcessRepository_File ==
    /\ pc = "files"
    /\ i_file <= Len(files)
    /\ \/ \* check_rate_limit or the decoding raises: caught at line 267
          /\ i_file' = i_file + 1
          /\ UNCHANGED <<pc, fileVars, i_line>>
       \/ \* content is None (request failed) or empty: continue
          /\ i_file' = i_file + 1
          /\ UNCHANGED <<pc, fileVars, i_line>>
       \/ /\ content' \in RepoContents
          /\ sorry_lines' = ProcessFileContent(content')
          /\ i_line' = 1
          /\ pc' = "lines"
          /\ UNCHANGED i_file
    /\ UNCHANGED <<clientVars, mainVars, repo_results, files, blame_info, failure>>

\* the for loop over the files goes on with the next file
NextFile ==
    /\ pc' = "files"
    /\ i_file' = i_file + 1
    /\ content' = <<>>
    /\ sorry_lines' = <<>>
    /\ i_line' = 0
    /\ blame_info' = NoBlame

\* lines 245-265: the blame of the next sorry line is looked up and tested
ProcessRepository_Line ==
    /\ pc = "lines"
    /\ i_line <= Len(sorry_lines)
    /\ blame_info' \in BlameInfos
    /\ IF blame_info'.isNone
       THEN /\ i_line' = i_line + 1
            /\ UNCHANGED <<pc, repo_results, i_file, fileVars>>
       ELSE IF DateRaises(blame_info'.date)
       THEN \* caught at line 267: the rest of the file is given up
            /\ pc' = "files"
            /\ i_file' = i_file + 1
            /\ content' = <<>>
            /\ sorry_lines' = <<>>
            /\ i_line' = 0
            /\ UNCHANGED repo_results
       ELSE IF TooOld(blame_info'.date)
       THEN /\ i_line' = i_line + 1
            /\ UNCHANGED <<pc, repo_results, i_file, fileVars>>
       ELSE /\ repo_results' = Append(repo_results,
                  SorryRecord(i_repo + 1, files[i_file], sorry_lines[i_line], blame_info'))
            /\ i_line' = i_line + 1
            /\ UNCHANGED <<pc, i_file, fileVars>>
    /\ UNCHANGED <<clientVars, mainVars, files, failure>>

\* line 245: the sorry lines of the file are exhausted
ProcessRepository_FileDone ==
    /\ pc = "lines"
    /\ i_line > Len(sorry_lines)
    /\ NextFile
    /\ UNCHANGED <<clientVars, mainVars, repo_results, files, failure>>

\* line 274: both loops are exhausted
ProcessRepository_Return ==
    /\ pc = "files"
    /\ i_file > Len(files)
    /\ pc' = "repo_ret"
    /\ UNCHANGED <<clientVars, mainVars, repoVars, fileVars, failure>>

\* lines 315-319: the results of the repository are added and the file written
Main_Collect ==
    /\ pc = "repo_ret"
    /\ IF repo_results # <<>>
       THEN /\ results' = results \o repo_results
            /\ new_sorries' = [exists |-> TRUE, data |-> DumpResults(results')]
       ELSE UNCHANGED <<results, new_sorries>>
    /\ i_repo' = i_repo + 1
    /\ pc' = "main"
    /\ repo_results' = <<>>
    /\ files' = <<>>
    /\ i_file' = 0
    /\ blame_info' = NoBlame
    /\ UNCHANGED <<clientVars, repos, fileVars, i_line, failure>>

\* line 321: print("Complete! Results saved in new_sorries.json")
Main_Complete ==
    /\ pc = "main"
    /\ i_repo = repos
    /\ pc' = "complete"
    /\ UNCHANGED <<clientVars, findVars, failure>>

FindInit ==
    /\ pc = "main"
    /\ repos \in 0..MaxRepos
    /\ i_repo = 0
    /\ results = <<>>
    /\ new_sorries \in {NoFile, StaleFile}
    /\ repo_results = <<>>
    /\ files = <<>>
    /\ i_file = 0
    /\ content = <<>>
    /\ sorry_lines = <<>>
    /\ i_line = 0
    /\ blame_info = [isNone |-> TRUE, date |-> [day |-> 0, form |-> "Z"]]
    /\ proof_text = <<>>
    /\ tactics = <<>>
    /\ sorries = <<>>
    /\ i_sorry = 0
    /\ seen = {}
    /\ prop = {}
    /\ llm_proofs = <<>>
    /\ out_json = NoFile
    /\ repl = 0
    /\ created = 0
    /\ live = {}
    /\ file_text = <<>>
    /\ line = 0
    /\ column = 0
    /\ proof = <<>>
    /\ FreshLocals
    /\ failure = "none"

FindNext ==
    \/ ProcessRepository_Start
    \/ ProcessRepository_File
    \/ ProcessRepository_Line
    \/ ProcessRepository_FileDone
    \/ ProcessRepository_Return
    \/ Main_Collect
    \/ Main_Complete

FindSpec == FindInit /\ [][FindNext]_vars

(* ------------------------ properties: _check_proof -------------------- *)

\* the tactic requests of the current call, in the order sent
SentTactics == SelectSeq(sent, LAMBDA r : r.kind = "tactic")

\* the last reply carries an error message or no proofState
ReplyRejects ==
    \/ \E i \in DOMAIN reply.messages : reply.messages[i] = "error"
    \/ ~reply.hasProofState

CallOver == pc \in {"ret", "aborted"}
Accepted == pc = "ret" /\ ~result.isNone
Rejected == pc = "ret" /\ result = None

\* C1: fail-fast. The tactic loop goes on only past a response without error
\* message and with a proofState; when the response to tactic number j carries an
\* error message or no proofState the call returns None, exactly j tactic
\* requests were sent, and they are the first j tactics of the proof.
C1_FailFast ==
    /\ (pc = "tactic" /\ Len(SentTactics) >= 1) => ~ReplyRejects
    /\ (pc = "ret" /\ Len(SentTactics) >= 1 /\ ReplyRejects) =>
          /\ result = None
          /\ Len(SentTactics) = Len(complete_proof) + 1
          /\ Len(SentTactics) <= Len(proof)
          /\ \A i \in 1..Len(SentTactics) : SentTactics[i].tactic = proof[i]

\* the first of two tactics was answered with an error: the second was never sent
C1_Witness ==
    /\ pc = "ret"
    /\ Len(proof) = 2
    /\ Len(SentTactics) = 1
    /\ \E i \in DOMAIN reply.messages : reply.messages[i] = "error"
    /\ result = None

\* the exchange itself failed: send_command raised, or the reply lacks a field
\* that its request kind requires
ExchangeFailed ==
    \/ failure = "exchange"
    \/ failure = "KeyError: sorries"
    \/ failure = "KeyError: goals" /\ Len(SentTactics) >= 1

AllTacticsPassed ==
    /\ proof_state # NoHandle
    /\ k = Len(proof)
    /\ Len(complete_proof) = Len(proof)

LastTacticClosesGoals ==
    /\ Len(proof) >= 1
    /\ Len(SentTactics) = Len(proof)
    /\ reply.hasGoals
    /\ reply.goals = <<>>

\* C2: acceptance. Whenever the call is over and no exchange failed, it returned
\* the newline-joined proof if the sorry was located, every tactic passed and the
\* response to the last tactic has no goals, and it returned None otherwise.
C2_AcceptedIff ==
    (CallOver /\ ~ExchangeFailed) =>
        IF AllTacticsPassed /\ LastTacticClosesGoals
        THEN Accepted /\ result.str = Join(proof)
        ELSE Rejected

\* C3: location mismatch. When the load reply carries a sorries list with no
\* entry at exactly (line, column), the call returns None after that one
\* exchange; and no tactic request is sent while no sorry has been located.
C3_NotFound ==
    /\ [][(/\ pc = "load"
           /\ reply'.hasSorries
           /\ \A i \in DOMAIN reply'.sorries :
                ~(reply'.sorries[i].pos.line = line /\ reply'.sorries[i].pos.column = column))
          => (/\ pc' = "ret"
              /\ result' = None
              /\ Len(sent') = 1
              /\ sent'[1].kind = "cmd")]_vars
    /\ [](proof_state = NoHandle => Len(SentTactics) = 0)

\* a reply with sorries, none at the position, for a proof with tactics to send
C3_Witness ==
    /\ pc = "ret"
    /\ proof_state = NoHandle
    /\ reply.hasSorries
    /\ Len(reply.sorries) >= 1
    /\ Len(proof) >= 1
    /\ Len(sent) = 1
    /\ result = None

\* C4: the empty proof. Whenever a call with proof = [] is over, and the load
\* exchange did not fail, it returned None.
C4_EmptyProofRejected ==
    (CallOver /\ proof = <<>> /\ failure \notin {"exchange", "KeyError: sorries"})
        => Rejected

(* ----------------------- properties: solve_sorry_db ------------------- *)

Range(s) == {s[i] : i \in DOMAIN s}

\* the Prop sorries of the current commit whose attempt has not begun
Remaining ==
    IF pc = "setup" THEN Range(sorries)
    ELSE IF pc = "sorry" THEN {sorries[j] : j \in i_sorry..Len(sorries)}
    ELSE {}

BetweenObligations == pc \in {"commits", "setup", "sorry", "done"}

\* the file holds the result map: same keys, null for None, the text otherwise
FileIsMap ==
    IF DOMAIN llm_proofs = {}
    THEN ~out_json.exists
    ELSE /\ out_json.exists
         /\ DOMAIN out_json.data = DOMAIN llm_proofs
         /\ \A u \in DOMAIN llm_proofs :
              IF llm_proofs[u].isNone
              THEN out_json.data[u].json = "null"
              ELSE /\ out_json.data[u].json = "string"
                   /\ out_json.data[u].text = llm_proofs[u].str

\* C5: generator failure. When the generator has failed for the obligation at
\* hand, the run is not aborted and the file holds that obligation with null.
C5_GeneratorFailureRecorded ==
    failure = "generator" =>
        /\ pc \notin {"aborted", "closed"}
        /\ out_json.exists
        /\ sorries[i_sorry] \in DOMAIN out_json.data
        /\ out_json.data[sorries[i_sorry]].json = "null"

\* C6: incremental persistence. Outside the step between the assignment to the
\* map and the rewrite of the file, the file holds exactly the map; between
\* obligations the map has one entry per Prop sorry attempted so far.
C6_FileReflectsMap ==
    /\ pc # "write" => FileIsMap
    /\ BetweenObligations => DOMAIN llm_proofs = prop \ Remaining

\* before the second sorry of a commit the file holds the first one's result,
\* and later a file with an accepted text and a null
C6_Witness ==
    /\ pc = "sorry"
    /\ out_json.exists
    /\ \E u \in DOMAIN out_json.data : out_json.data[u].json = "null"
    /\ \E u \in DOMAIN out_json.data :
         out_json.data[u].json = "string" /\ out_json.data[u].text # ""

\* C7: a rejection is local. A None returned by _check_proof is recorded under
\* the sorry's uuid; after its write the loop goes to the commit's next sorry, or
\* to the next commit; no sorry is attempted twice; and a run that ends normally
\* has an entry for every Prop sorry.
C7_RejectionContinues ==
    /\ [][(pc = "ret" /\ result = None)
          => (/\ pc' = "write"
              /\ sorries[i_sorry] \in DOMAIN llm_proofs'
              /\ llm_proofs'[sorries[i_sorry]] = None)]_vars
    /\ [][(pc = "write" /\ llm_proofs[sorries[i_sorry]] = None)
          => IF i_sorry < Len(sorries)
             THEN pc' = "sorry" /\ i_sorry' = i_sorry + 1 /\ sorries' = sorries
             ELSE pc' = "commits"]_vars
    /\ [](pc \in {"load", "tactic", "ret"} => sorries[i_sorry] \notin DOMAIN llm_proofs)
    /\ [](pc = "done" => DOMAIN llm_proofs = prop)

\* a run that ended normally, with a rejected sorry followed by a solved one
C7_Witness ==
    /\ pc = "done"
    /\ \E u, v \in DOMAIN llm_proofs :
         /\ u < v
         /\ llm_proofs[u] = None
         /\ ~llm_proofs[v].isNone
         /\ llm_proofs[v].str # ""

\* C8: session-level failures. A failure of _setup_repo or of an exchange with
\* the REPL does not abort the run.
C8_SessionFailureScoped ==
    failure \in {"setup", "exchange", "KeyError: sorries", "KeyError: goals"}
        => pc \notin {"aborted", "closed"}

\* C9: session lifecycle. At most one REPL process is alive.
C9_OneSession == Cardinality(live) <= 1

\* C10: resource safety. After an exchange failure, once the client is closed
\* no REPL process is left running.
C10_NoLeak ==
    (pc = "closed" /\ failure = "exchange") => live = {}

\* C11: single use of handles. Within one call no two tactic requests carry the
\* same proof state; the first handle is that of the first sorry entry at
\* (line, column); every tactic request carries the current handle; and after a
\* tactic that passed the current handle is the one its reply returned.
C11_HandlesUsedOnce ==
    /\ [](\A i, j \in DOMAIN SentTactics :
            i # j => SentTactics[i].proofState # SentTactics[j].proofState)
    /\ [][(pc = "load" /\ pc' = "tactic")
          => \E i \in DOMAIN reply'.sorries :
               /\ reply'.sorries[i].pos = [line |-> line, column |-> column]
               /\ \A j \in 1..(i - 1) :
                    reply'.sorries[j].pos # [line |-> line, column |-> column]
               /\ proof_state' = reply'.sorries[i].proofState]_vars
    /\ [][(pc = "tactic" /\ Len(sent') = Len(sent) + 1)
          => (/\ sent'[Len(sent')].kind = "tactic"
              /\ sent'[Len(sent')].proofState = proof_state)]_vars
    /\ [][(pc = "tactic" /\ k' = k + 1)
          => (reply'.hasProofState /\ proof_state' = reply'.proofState)]_vars

\* two tactics sent: the first on the handle of the file's second sorry, the
\* second on the handle the first reply returned
C11_Witness ==
    /\ Len(SentTactics) = 2
    /\ SentTactics[1].proofState = 1
    /\ SentTactics[2].proofState = 2
    /\ pc = "ret"

\* C14: strict ordering. The tactic requests sent are a prefix of the proof, in
\* its order, request number i carrying tactic number i; the first request of
\* the call, and only the first, is the load.
C14_SubmissionOrder ==
    /\ Len(SentTactics) <= Len(proof)
    /\ \A i \in DOMAIN SentTactics : SentTactics[i].tactic = proof[i]
    /\ \A i \in DOMAIN sent : (i = 1) <=> (sent[i].kind = "cmd")
    /\ Len(sent) = IF sent = <<>> THEN 0 ELSE Len(SentTactics) + 1

\* both tactics of a proof of two different tactics were sent
C14_Witness ==
    /\ pc = "ret"
    /\ Len(proof) = 2
    /\ proof[1] # proof[2]
    /\ Len(SentTactics) = 2
    /\ ~result.isNone

InCommit == pc \in {"setup", "sorry", "load", "tactic", "ret", "write"}

\* C20: filter soundness. Every key of the result map and of the output file is
\* the uuid of a Prop sorry; only a commit with a Prop sorry leads to a
\* repository setup, a new session or a generator call, and a commit without
\* one changes nothing; every request of a verification goes to the session
\* that was created for the commit being worked on.
C20_FilterSound ==
    /\ [](DOMAIN llm_proofs \subseteq prop)
    /\ [](out_json.exists => DOMAIN out_json.data \subseteq prop)
    /\ [](InCommit => (sorries # <<>> /\ Range(sorries) \subseteq prop))
    /\ [](\A i \in DOMAIN sent : sent[i].session = repl /\ repl = created)
    /\ [][(pc = "commits" /\ pc' \notin {"commits", "done"})
          => (pc' = "setup" /\ prop' # prop)]_vars
    /\ [][(pc = "commits" /\ prop' = prop)
          => UNCHANGED <<sessVars, argVars, checkVars, llm_proofs, out_json, failure>>]_vars
    /\ [][created' # created
          => (pc = "setup" /\ created' = created + 1 /\ repl' = created')]_vars
    /\ [][(InCommit /\ pc' # "aborted" /\ pc # "setup") => repl' = repl]_vars

\* a tactic goes to the second commit's session after a commit of non-Prop
\* sorries only was passed over
C20_Witness ==
    /\ pc = "tactic"
    /\ Len(SentTactics) = 1
    /\ created = 2
    /\ seen \ prop # {}
    /\ \E u \in seen \ prop : \A v \in prop : u < v

(* ------------------------ claims on _split_proof ----------------------- *)

SplitOver == pc # "split"
SplitReturned == pc = "split_ret"
Blank(ln) == Strip(ln) = <<>>
IsByLine(ln) == Strip(ln) = By
NonBlankLines(lines) == SelectSeq(lines, LAMBDA ln : ~Blank(ln))

\* the text has nothing but blank lines, after its first line if that one is by
EmptyCandidate(text) ==
    \/ NonBlankLines(SplitLines(text)) = <<>>
    \/ /\ IsByLine(SplitLines(text)[1])
       /\ NonBlankLines(Tail(SplitLines(text))) = <<>>

\* C19: empty candidates. For a text without a non-blank line once the leading
\* by line is dropped, _split_proof returns the empty list and does not raise.
C19_EmptyCandidate ==
    (SplitOver /\ EmptyCandidate(proof_text)) => (SplitReturned /\ tactics = <<>>)

\* the line opens a tactic once base characters and the terminator are removed
ZeroIndent(ln, base) == Indent(DropTerminator(Slice(ln, base))) = 0

\* the lines from the first non-blank one that opens a tactic on
RECURSIVE DropEarly(_, _)
DropEarly(lines, base) ==
    IF lines = <<>> THEN <<>>
    ELSE IF Blank(Head(lines)) \/ ~ZeroIndent(Head(lines), base)
    THEN DropEarly(Tail(lines), base)
    ELSE lines

\* the first non-blank line left is indented deeper than the base
EarlyContinuation(text) ==
    LET lines == RemainingLines(text)
        nb == NonBlankLines(lines)
    IN  /\ nb # <<>>
        /\ ~ZeroIndent(nb[1], Indent(lines[1]))

\* C15: early continuation. When an indented line comes before any line at
\* indentation zero, _split_proof does not raise; it skips that line and
\* splits the lines after it as usual.
C15_EarlyContinuationSkipped ==
    (SplitOver /\ EarlyContinuation(proof_text))
    => LET lines == RemainingLines(proof_text)
           base == Indent(lines[1])
       IN  /\ SplitReturned
           /\ tactics = Walk(DropEarly(lines, base), base, <<>>).tactics

\* the letters of a text, in order
Letters(s) == SelectSeq(s, LAMBDA c : c \notin Whitespace /\ c # ";")

RECURSIVE Concat(_)
Concat(xs) == IF xs = <<>> THEN <<>> ELSE Head(xs) \o Concat(Tail(xs))

\* lines[0] is not blank and some non-blank line is indented less than it
ShallowLine(text) ==
    LET lines == RemainingLines(text)
    IN  /\ lines # <<>>
        /\ ~Blank(lines[1])
        /\ \E i \in DOMAIN lines : ~Blank(lines[i]) /\ Indent(lines[i]) < Indent(lines[1])

\* C16: shallow indentation. When a line has less leading whitespace than the
\* base indentation, _split_proof does not raise and takes no character other
\* than whitespace (and the terminator) from the lines: the letters of the
\* tactics are the letters of the lines, in order.
C16_ShallowLineKept ==
    (SplitOver /\ ShallowLine(proof_text))
    => /\ SplitReturned
       /\ Letters(Concat(tactics)) = Letters(Concat(RemainingLines(proof_text)))

\* the lines from the first non-blank one on
RECURSIVE DropBlankPrefix(_)
DropBlankPrefix(lines) ==
    IF lines # <<>> /\ Blank(Head(lines)) THEN DropBlankPrefix(Tail(lines)) ELSE lines

\* blank lines come before the first tactic line (after the by line if any)
LeadingBlankLines(text) ==
    LET lines == RemainingLines(text)
    IN  /\ lines # <<>>
        /\ Blank(lines[1])
        /\ DropBlankPrefix(lines) # <<>>

\* C17: base indentation. With blank lines before the first tactic line, the
\* list returned is the one returned for the same lines without those blank
\* lines, the base indentation being that of the first non-blank line.
C17_LeadingBlankLinesIgnored ==
    (SplitOver /\ LeadingBlankLines(proof_text))
    => LET rest == DropBlankPrefix(RemainingLines(proof_text))
       IN  /\ SplitReturned
           /\ tactics = Walk(rest, Indent(rest[1]), <<>>).tactics

\* the first non-blank line of the text is by, after at least one empty line,
\* and the line after it is not blank and not indented
ByAfterBlankLines(text) ==
    LET lines == SplitLines(text)
        rest == DropBlankPrefix(lines)
    IN  /\ lines[1] = <<>>
        /\ rest # <<>>
        /\ IsByLine(rest[1])
        /\ Len(rest) > 1
        /\ ~Blank(rest[2])
        /\ Indent(rest[2]) = 0

\* the first line is a tactic line that is not by and not indented, and a
\* later line is exactly by
LaterBy(text) ==
    LET lines == SplitLines(text)
    IN  /\ ~Blank(lines[1])
        /\ ~IsByLine(lines[1])
        /\ Indent(lines[1]) = 0
        /\ \E i \in 2..Len(lines) : lines[i] = By

\* C18: tactic-block token. A by line that is the first non-empty line is
\* dropped, also after blank lines: the list returned is that of the lines
\* after it. A by line that comes later is kept as a tactic.
C18_ByDropped ==
    /\ (SplitOver /\ ByAfterBlankLines(proof_text))
       => /\ SplitReturned
          /\ tactics = Walk(Tail(DropBlankPrefix(SplitLines(proof_text))), 0, <<>>).tactics
    /\ (SplitOver /\ LaterBy(proof_text))
       => /\ SplitReturned
          /\ \E i \in DOMAIN tactics : tactics[i] = By

\* "\n".join(tactics)
RECURSIVE JoinLines(_)
JoinLines(xs) ==
    IF xs = <<>> THEN <<>>
    ELSE IF Len(xs) = 1 THEN xs[1]
    ELSE xs[1] \o <<"\n">> \o JoinLines(Tail(xs))

\* a tactic list with the trailing terminators of every line removed
Normalized(ts) ==
    [i \in DOMAIN ts |->
        LET lines == SplitLines(ts[i])
        IN  [j \in DOMAIN lines |-> StripTerminators(lines[j])]]

\* C12: idempotence. Splitting the newline-join of the list returned gives the
\* same list again, up to the trailing terminators of the lines, and does not
\* raise.
C12_SplitIdempotent ==
    SplitReturned
    => LET again == SplitProof(JoinLines(tactics))
       IN  /\ ~again.raised
           /\ Normalized(again.tactics) = Normalized(tactics)

\* every non-blank line is indented at least as lines[0] is, the first of them
\* exactly so
WellIndented(text) ==
    LET lines == RemainingLines(text)
        nb == NonBlankLines(lines)
    IN  /\ lines # <<>>
        /\ nb # <<>>
        /\ \A i \in DOMAIN nb : Indent(nb[i]) >= Indent(lines[1])
        /\ Indent(nb[1]) = Indent(lines[1])

\* the line without its first n characters and without one trailing terminator
Relative(ln, n) ==
    LET cut == SubSeq(ln, n + 1, Len(ln))
    IN  IF cut[Len(cut)] = ";" THEN SubSeq(cut, 1, Len(cut) - 1) ELSE cut

\* the non-blank lines nb grouped: one entry per line at indentation base, made
\* of that line and of the lines up to the next such line, newline-joined
Grouped(nb, base) ==
    LET heads == {i \in DOMAIN nb : Indent(nb[i]) = base}
        HeadAt(h) == CHOOSE i \in heads : Cardinality({j \in heads : j < i}) = h - 1
        LastOf(h) == IF h = Cardinality(heads) THEN Len(nb) ELSE HeadAt(h + 1) - 1
    IN  [h \in 1..Cardinality(heads) |->
            JoinLines([j \in 1..(LastOf(h) - HeadAt(h) + 1) |->
                          Relative(nb[HeadAt(h) + j - 1], base)])]

\* C13: grouping is lossless and ordered. For a text whose non-blank lines are
\* all indented at least the base indentation, the first of them exactly so,
\* _split_proof returns one entry per line at base indentation, in order, each
\* made of that line and its deeper lines, newline-joined, without the base
\* indentation and without one trailing terminator per line; blank lines are
\* in no entry and every non-blank line is in exactly one.
C13_GroupingLossless ==
    (SplitOver /\ WellIndented(proof_text))
    => LET lines == RemainingLines(proof_text)
       IN  /\ SplitReturned
           /\ tactics = Grouped(NonBlankLines(lines), Indent(lines[1]))

\* two tactics returned from indented lines, the first with a continuation line
C13_Witness ==
    /\ SplitReturned
    /\ WellIndented(proof_text)
    /\ Len(tactics) = 2
    /\ \E i \in DOMAIN tactics[1] : tactics[1][i] = "\n"

(* ----------------------- claims on find_sorries ------------------------ *)

\* the number (1-based) of the line that position p of the text is on
LineNo(text, p) == Cardinality({q \in 1..(p - 1) : text[q] = "\n"}) + 1

\* position p holds the word sorry with whitespace or the end of the text on
\* either side
SorryTokenAt(text, p) ==
    /\ text[p] = "sorry"
    /\ p = 1 \/ text[p - 1] \in Whitespace
    /\ p = Len(text) \/ text[p + 1] \in Whitespace

\* position p holds the first character of its line that is not whitespace
FirstOfLine(text, p) ==
    /\ text[p] \notin Whitespace
    /\ \A q \in 1..(p - 1) : LineNo(text, q) = LineNo(text, p) => text[q] \in Whitespace

\* the stripped text of line n starts with -- or /--
CommentLine(text, n) ==
    \E p \in DOMAIN text :
        /\ LineNo(text, p) = n
        /\ FirstOfLine(text, p)
        /\ \/ /\ p + 1 <= Len(text)
              /\ text[p] = "-" /\ text[p + 1] = "-"
           \/ /\ p + 2 <= Len(text)
              /\ text[p] = "/" /\ text[p + 1] = "-" /\ text[p + 2] = "-"

SorryLineNumbers(text) ==
    {LineNo(text, p) : p \in {q \in DOMAIN text :
                                 SorryTokenAt(text, q) /\ ~CommentLine(text, LineNo(text, q))}}

\* C23: process_file_content returns, in ascending order and counted from 1,
\* exactly the numbers of the lines that hold sorry as a whitespace-delimited
\* token and whose stripped text does not start with -- or /--.
C23_SorryLines ==
    pc = "content_ret"
    => /\ \A i, j \in DOMAIN sorry_lines : i < j => sorry_lines[i] < sorry_lines[j]
       /\ Range(sorry_lines) = SorryLineNumbers(content)

\* lines 1 and 3 are reported, line 2 has no sorry
C23_Witness ==
    /\ pc = "content_ret"
    /\ sorry_lines = <<1, 3>>

\* a sorry on a comment line is not reported
C23_WitnessComment ==
    /\ pc = "content_ret"
    /\ sorry_lines = <<>>
    /\ \E p \in DOMAIN content : SorryTokenAt(content, p) /\ CommentLine(content, LineNo(content, p))

InRepository == pc \in {"files", "lines"}

\* the records reported so far, by this repository and by the earlier ones
Reported == results \o repo_results

\* C22: recency filter. Every record has a blame and a blame date not older
\* than the cutoff date; a sorry line whose blame lookup fails or whose blame
\* date is before the cutoff adds no record; records once added stay; and
\* whatever happens with a file, the loop goes on with the next file or line
\* and process_repository returns only after the last file of the last branch.
C22_RecencyFilter ==
    /\ [](\A i \in DOMAIN Reported :
            /\ ~Reported[i].blame.isNone
            /\ Reported[i].blame.date.day >= cutoff_date)
    /\ [][(pc = "lines" /\ pc' # "repo_ret"
           /\ (blame_info'.isNone \/ blame_info'.date.day < cutoff_date))
          => repo_results' = repo_results]_vars
    /\ [][InRepository
          => (/\ pc' \in {"files", "lines", "repo_ret"}
              /\ failure' = "none"
              /\ files' = files
              /\ i_file' \in {i_file, i_file + 1}
              /\ pc' = "repo_ret" => i_file > Len(files)
              /\ \E n \in 0..1 : /\ Len(repo_results') = Len(repo_results) + n
                                 /\ SubSeq(repo_results', 1, Len(repo_results)) = repo_results)]_vars

\* the first file gave nothing, the first sorry line of the second file, on
\* another branch, was turned down and its second line is reported
C22_Witness ==
    /\ pc = "lines"
    /\ i_file = 2
    /\ files[2].branch = "dev"
    /\ Len(repo_results) = 1
    /\ repo_results[1].branch = "dev"
    /\ repo_results[1].line_number = 2
    /\ repo_results[1].blame.date.day = cutoff_date

\* C21: discovery run completion. When main reports completion every
\* repository of the list has been processed and no exception has ended the
\* run, and new_sorries.json holds exactly the accumulated results, also when
\* there are none.
C21_RunCompletion ==
    /\ failure = "none"
    /\ pc = "complete"
       => /\ i_repo = repos
          /\ new_sorries.exists
          /\ new_sorries.data = DumpResults(results)

====
